---- MODULE Spec2Model ----
(***************************************************************************)
(* Model of the PubMed paper fetcher (src/Pubmed/pubmed_fetcher.py and     *)
(* src/Pubmed/get_papers_list.py).                                         *)
(*                                                                         *)
(* Text that the program inspects (names, affiliations, emails, keywords)  *)
(* is a sequence of one-character strings, so that lower-casing, substring *)
(* search and the e-mail pattern are computed character by character.      *)
(* Text that is only copied (PMID, title, date) is a TLA+ string.          *)
(* An optional XML element is <<>> when absent and <<text>> when present.  *)
(***************************************************************************)
EXTENDS Integers, Sequences, FiniteSets, TLC

VARIABLES
    pc,                   \* position of the caller: start, have_ids, loop, have_papers, done, failed
    entry,                \* who runs: "fetcher", "main", "script" or "api"
    has_file,             \* get_papers_list.main: args.file was given
    paper_ids,            \* result of fetch_paper_ids / argument of fetch_paper_details
    articles,             \* soup.find_all("PubmedArticle") of the details response
    idx,                  \* number of articles the for loop of fetch_paper_details has consumed
    authors,              \* local of the loop body: the current article's author dicts
    company_authors,      \* local of the loop body
    company_affiliations, \* local of the loop body
    relevant_papers,      \* rows accumulated by fetch_paper_details / held by the caller
    file,                 \* the output file: [exists, lines]
    file0,                \* the output file as it was before the first step
    calls,                \* the record lists passed to save_to_csv, in call order
    trace                 \* external effects in order: the GETs with their status, the file write

vars == <<pc, entry, has_file, paper_ids, articles, idx, authors, company_authors,
          company_affiliations, relevant_papers, file, file0, calls, trace>>

----------------------------------------------------------------------------
(* Bounds of the model *)

MaxArticles == 2
MaxAuthors == 2
MaxParts == 2
MaxEmailParts == 4
MaxRows == 2
MaxCalls == 3

----------------------------------------------------------------------------
(* Text helpers *)

None == <<>>
Some(x) == <<x>>

\* The only element of a one-element set.  In  The({e(x) : x \in {v}})  the
\* value v is computed once, however often e uses x; this is how a local
\* variable of the program is written below.
The(S) == CHOOSE x \in S : TRUE

Min(S) == CHOOSE x \in S : \A y \in S : x <= y
Max(S) == CHOOSE x \in S : \A y \in S : x >= y

UpperToLower ==
    ("A" :> "a") @@ ("B" :> "b") @@ ("C" :> "c") @@ ("D" :> "d") @@ ("E" :> "e") @@
    ("F" :> "f") @@ ("G" :> "g") @@ ("H" :> "h") @@ ("I" :> "i") @@ ("J" :> "j") @@
    ("K" :> "k") @@ ("L" :> "l") @@ ("M" :> "m") @@ ("N" :> "n") @@ ("O" :> "o") @@
    ("P" :> "p") @@ ("Q" :> "q") @@ ("R" :> "r") @@ ("S" :> "s") @@ ("T" :> "t") @@
    ("U" :> "u") @@ ("V" :> "v") @@ ("W" :> "w") @@ ("X" :> "x") @@ ("Y" :> "y") @@
    ("Z" :> "z")

UpperChars == DOMAIN UpperToLower
LowerChars == {UpperToLower[c] : c \in UpperChars}
DigitChars == {"0", "1", "2", "3", "4", "5", "6", "7", "8", "9"}

\* str.lower()
lower(s) == [i \in 1..Len(s) |-> IF s[i] \in UpperChars THEN UpperToLower[s[i]] ELSE s[i]]

\* str.upper(), used only to build affiliation texts
LowerToUpper(c) == CHOOSE u \in UpperChars : UpperToLower[u] = c
upper(s) == [i \in 1..Len(s) |-> IF s[i] \in LowerChars THEN LowerToUpper(s[i]) ELSE s[i]]

\* Python's  k in s  for strings
Contains(s, k) ==
    \E i \in 0..(Len(s) - Len(k)) : SubSeq(s, i + 1, i + Len(k)) = k

\* sep.join(parts)
RECURSIVE join(_, _)
join(sep, parts) ==
    IF parts = <<>> THEN <<>>
    ELSE IF Len(parts) = 1 THEN parts[1]
    ELSE parts[1] \o sep \o join(sep, Tail(parts))

----------------------------------------------------------------------------
(* Constants of pubmed_fetcher.py *)

PHARMA_KEYWORDS ==
    <<<<"p","h","a","r","m","a">>, <<"b","i","o","t","e","c","h">>, <<"t","h","e","r","a","p","e","u","t","i","c","s">>, <<"b","i","o","s","c","i","e","n","c","e","s">>, <<"g","e","n","o","m","i","c","s">>,
      <<"b","i","o","p","h","a","r","m","a">>, <<"l","i","f","e"," ","s","c","i","e","n","c","e","s">>, <<"l","a","b","o","r","a","t","o","r","i","e","s">>, <<"i","n","c",".">>, <<"c","o","r","p">>,
      <<"l","l","c">>, <<"g","m","b","h">>, <<"s",".","a",".">>, <<"d","r","u","g"," ","d","i","s","c","o","v","e","r","y">>, <<"b","i","o","l","o","g","i","c","s">>,
      <<"b","i","o","m","e","d","i","c","i","n","e">>, <<"d","i","a","g","n","o","s","t","i","c","s">>, <<"p","h","a","r","m","a","c","e","u","t","i","c","a","l">>,
      <<"c","l","i","n","i","c","a","l"," ","r","e","s","e","a","r","c","h">>, <<"m","e","d","t","e","c","h">>, <<"b","i","o","p","r","o","c","e","s","s","i","n","g">>, <<"C","R","I","S","P","R">>>>

NA == <<"N","/","A">>
UnknownAuthor == <<"U","n","k","n","o","w","n"," ","A","u","t","h","o","r">>
NoAffiliation == <<"N","o"," ","A","f","f","i","l","i","a","t","i","o","n">>
Separator == <<";"," ">>

\* EMAIL_PATTERN = [\w.-]+@[\w.-]+\.[a-zA-Z]{2,6}
IsAlpha(c) == c \in UpperChars \cup LowerChars
IsWord(c) == IsAlpha(c) \/ c \in DigitChars \/ c = "_"
InClass(c) == IsWord(c) \/ c = "." \/ c = "-"

\* first index >= i whose character is outside [\w.-] (Len(s) + 1 when none)
RECURSIVE ClassRunEnd(_, _)
ClassRunEnd(s, i) ==
    IF i > Len(s) \/ ~InClass(s[i]) THEN i ELSE ClassRunEnd(s, i + 1)

\* number of consecutive [a-zA-Z] characters from index i on
RECURSIVE AlphaRun(_, _)
AlphaRun(s, i) ==
    IF i > Len(s) \/ ~IsAlpha(s[i]) THEN 0 ELSE 1 + AlphaRun(s, i + 1)

TldMin == 2
TldMax == 6

\* The match the backtracking engine finds when it starts at index i: the
\* index of its last character, or 0 when there is none.  [\w.-]+ (greedy)
\* runs to the first character outside the class, which must be "@"; the
\* second [\w.-]+ (greedy) is shortened until it is followed by "." and at
\* least two letters; {2,6} (greedy) then takes up to six letters.
\* the last "." of s[from..to] that at least TldMin letters follow, or 0
LastDot(s, from, to) ==
    The({IF dots = {} THEN 0 ELSE Max(dots) :
            dots \in {{p \in from..to : s[p] = "." /\ AlphaRun(s, p + 1) >= TldMin}}})

\* the end of the match whose domain ends with the "." at index p (0: none)
TldEnd(s, p) ==
    IF p = 0 THEN 0
    ELSE The({p + (IF n > TldMax THEN TldMax ELSE n) : n \in {AlphaRun(s, p + 1)}})

MatchEnd(s, i) ==
    The({IF r = i \/ r > Len(s) \/ s[r] # "@" THEN 0
         ELSE The({TldEnd(s, p) : p \in {LastDot(s, r + 2, ClassRunEnd(s, r + 1) - 1)}}) :
            r \in {ClassRunEnd(s, i)}})

\* EMAIL_PATTERN.search(text): the leftmost start that has a match
\* variant: the rightmost start that has a match
EMAIL_PATTERN_search_last(text) ==
    The({IF starts = {} THEN None
         ELSE The({Some(SubSeq(text, i, MatchEnd(text, i))) : i \in {Max(starts)}}) :
            starts \in {{i \in 1..Len(text) : MatchEnd(text, i) # 0}}})

EMAIL_PATTERN_search(text) ==
    The({IF starts = {} THEN None
         ELSE The({Some(SubSeq(text, i, MatchEnd(text, i))) : i \in {Min(starts)}}) :
            starts \in {{i \in 1..Len(text) : MatchEnd(text, i) # 0}}})

extract_email(text) ==
    The({IF match # None THEN match[1] ELSE NA : match \in {EMAIL_PATTERN_search(text)}})

----------------------------------------------------------------------------
(* Pure functions of pubmed_fetcher.py *)

\* one iteration of the loop of extract_authors_and_affiliations
\* variant: a missing affiliation is left empty
AuthorDict_noPlaceholder(author) ==
    LET last_name == author.LastName
        fore_name == author.ForeName
        affiliation == author.Affiliation
        name == IF last_name # None /\ fore_name # None
                THEN fore_name[1] \o <<" ">> \o last_name[1]
                ELSE UnknownAuthor
        affil_text == IF affiliation # None THEN affiliation[1] ELSE <<>>
    IN  [name |-> name, affiliation |-> affil_text, email |-> extract_email(affil_text)]

AuthorDict(author) ==
    LET last_name == author.LastName
        fore_name == author.ForeName
        affiliation == author.Affiliation
        name == IF last_name # None /\ fore_name # None
                THEN fore_name[1] \o <<" ">> \o last_name[1]
                ELSE UnknownAuthor
        affil_text == IF affiliation # None THEN affiliation[1] ELSE NoAffiliation
    IN  [name |-> name, affiliation |-> affil_text, email |-> extract_email(affil_text)]

\* the pair (authors, affiliations) the function returns
extract_authors_and_affiliations(article) ==
    The({[authors |-> as, affiliations |-> [i \in 1..Len(as) |-> as[i].affiliation]] :
            as \in {[i \in 1..Len(article.Author) |-> AuthorDict(article.Author[i])]}})

\* variant: the affiliation is not lower-cased
MatchesKeyword_caseSensitive(author) ==
    \E k \in 1..Len(PHARMA_KEYWORDS) : Contains(author.affiliation, PHARMA_KEYWORDS[k])

\* any(keyword in author["affiliation"].lower() for keyword in PHARMA_KEYWORDS)
MatchesKeyword(author) ==
    \E low \in {lower(author.affiliation)} :
        \E k \in 1..Len(PHARMA_KEYWORDS) : Contains(low, PHARMA_KEYWORDS[k])

\* variant: an author that matches is kept once, at the first occurrence
filter_company_authors_dedupe(as) ==
    The({[names |-> [i \in 1..Len(kept) |-> kept[i].author.name],
          affiliations |-> [i \in 1..Len(kept) |-> kept[i].author.affiliation]] :
            kept \in {SelectSeq([i \in 1..Len(as) |->
                                   [author |-> as[i],
                                    first |-> \A j \in 1..(i - 1) : as[j] # as[i]]],
                                LAMBDA e : e.first /\ MatchesKeyword(e.author))}})

\* the pair (company_authors, company_affiliations): the authors that match,
\* in the order of the list, each appended once per occurrence
filter_company_authors(as) ==
    The({[names |-> [i \in 1..Len(kept) |-> kept[i].name],
          affiliations |-> [i \in 1..Len(kept) |-> kept[i].affiliation]] :
            kept \in {SelectSeq(as, MatchesKeyword)}})

\* the loop of find_corresponding_email from the i-th author on
RECURSIVE FirstEmailFrom(_, _)
FirstEmailFrom(as, i) ==
    IF i > Len(as) THEN NA
    ELSE IF as[i].email # NA THEN as[i].email
    ELSE FirstEmailFrom(as, i + 1)

\* variant: the last author with an e-mail wins
find_corresponding_email_last(as) ==
    The({IF with = {} THEN NA ELSE as[Max(with)].email :
            with \in {{i \in 1..Len(as) : as[i].email # NA}}})

find_corresponding_email(as) == FirstEmailFrom(as, 1)

----------------------------------------------------------------------------
(* The output file and save_to_csv *)

\* the header line pandas writes: the column names, shaped like a row
Header ==
    [PubmedID |-> "PubmedID",
     Title |-> "Title",
     PublicationDate |-> "Publication Date",
     NonAcademicAuthors |-> <<"N","o","n","-","a","c","a","d","e","m","i","c"," ","A","u","t","h","o","r","(","s",")">>,
     CompanyAffiliations |-> <<"C","o","m","p","a","n","y"," ","A","f","f","i","l","i","a","t","i","o","n","(","s",")">>,
     CorrespondingAuthorEmail |-> <<"C","o","r","r","e","s","p","o","n","d","i","n","g"," ","A","u","t","h","o","r"," ","E","m","a","i","l">>]

NoFile == [exists |-> FALSE, lines |-> <<>>]

\* variant: the header is written on every call
save_to_csv_header(papers, f) ==
    IF papers = <<>> THEN f
    ELSE [exists |-> TRUE, lines |-> f.lines \o <<Header>> \o papers]

\* variant: no early return for an empty list
save_to_csv_noguard(papers, f) ==
    IF f.exists
    THEN [exists |-> TRUE, lines |-> f.lines \o papers]
    ELSE [exists |-> TRUE, lines |-> <<Header>> \o papers]

\* the file after save_to_csv(papers, filename) when it was f before
save_to_csv(papers, f) ==
    IF papers = <<>> THEN f
    ELSE IF f.exists
         THEN [exists |-> TRUE, lines |-> f.lines \o papers]
         ELSE [exists |-> TRUE, lines |-> <<Header>> \o papers]

\* the row fetch_paper_details builds for a retained article
PaperRow(article, as, names, affils) ==
    [PubmedID |-> IF article.PMID # None THEN article.PMID[1] ELSE "Unknown ID",
     Title |-> IF article.ArticleTitle # None THEN article.ArticleTitle[1] ELSE "Unknown Title",
     PublicationDate |-> IF article.PubDate # None THEN article.PubDate[1] ELSE "Unknown Date",
     NonAcademicAuthors |-> join(Separator, names),
     CompanyAffiliations |-> join(Separator, affils),
     CorrespondingAuthorEmail |-> find_corresponding_email(as)]

----------------------------------------------------------------------------
(* Inputs: what the servers may answer and what the documents may hold *)

Statuses == {200, 404, 500}

\* entries of trace
Request(kind, status) == [kind |-> kind, status |-> status]
FileWrite == [kind |-> "write", status |-> 0]

\* variant: only server errors raise
RaisesForStatus_5xx(status) == status >= 500

\* response.raise_for_status() raises for 4xx and 5xx
RaisesForStatus(status) == status >= 400

AllIds == <<"111", "222">>
IdLists == {SubSeq(AllIds, 1, n) : n \in 0..Len(AllIds)}

Author(fore, last, affil) == [ForeName |-> fore, LastName |-> last, Affiliation |-> affil]

BroadAuthor == Author(Some(<<"A","n","n">>), Some(<<"L","e","e">>), Some(<<"B","r","o","a","d"," ","I","n","s","t","i","t","u","t","e">>))
EditasAuthor == Author(Some(<<"B","o">>), Some(<<"K","i","m">>), Some(<<"E","d","i","t","a","s"," ","M","e","d","i","c","i","n","e",","," ","I","n","c","."," ","x","@","e","d","i","t","a","s",".","c","o","m">>))
EditasNoEmailAuthor == Author(Some(<<"B","o">>), Some(<<"K","i","m">>), Some(<<"E","d","i","t","a","s"," ","M","e","d","i","c","i","n","e",","," ","I","n","c",".">>))
MitAuthor == Author(None, Some(<<"C","y">>), Some(<<"M","I","T",","," ","y","@","m","i","t",".","e","d","u">>))
NoAffilAuthor == Author(Some(<<"D","i">>), Some(<<"W","u">>), None)
PfizerAuthor == Author(Some(<<"E","d">>), None, Some(<<"P","f","i","z","e","r"," ","I","n","c",".",","," ","c","o","n","t","a","c","t",":"," ","a",".","b","@","p","f","i","z","e","r",".","c","o","m">>))

AuthorPool == {BroadAuthor, EditasAuthor, EditasNoEmailAuthor, MitAuthor, NoAffilAuthor, PfizerAuthor}

RECURSIVE SeqsUpTo(_, _)
SeqsUpTo(S, n) ==
    IF n = 0 THEN {<<>>}
    ELSE LET shorter == SeqsUpTo(S, n - 1) IN
         shorter \cup {Append(q, x) : q \in shorter, x \in S}

Article(pmid, title, date, as) ==
    [PMID |-> pmid, ArticleTitle |-> title, PubDate |-> date, Author |-> as]

Article111 == Article(Some("111"), Some("CRISPR gene editing"), Some("2024"),
                      <<BroadAuthor, EditasAuthor>>)
Article111NoEmail == Article(Some("111"), Some("CRISPR gene editing"), Some("2024"),
                             <<BroadAuthor, EditasNoEmailAuthor>>)
Article222 == Article(Some("222"), Some("Base editing"), Some("2023"),
                      <<BroadAuthor, MitAuthor>>)
ArticleBare == Article(None, None, None, <<PfizerAuthor, NoAffilAuthor>>)
ArticleRepeated == Article(Some("333"), Some("Prime editing"), None,
                           <<MitAuthor, EditasAuthor, BroadAuthor, EditasAuthor>>)
ArticleNoAuthors == Article(Some("444"), None, Some("2022"), <<>>)

ArticlePool == {Article111, Article111NoEmail, Article222, ArticleBare,
                ArticleRepeated, ArticleNoAuthors}

Documents == SeqsUpTo(ArticlePool, MaxArticles)

OldRow ==
    [PubmedID |-> "999", Title |-> "Old", PublicationDate |-> "2020",
     NonAcademicAuthors |-> <<"A","l"," ","P","o">>, CompanyAffiliations |-> <<"A","c","m","e"," ","C","o","r","p">>,
     CorrespondingAuthorEmail |-> NA]

FilePool == {NoFile, [exists |-> TRUE, lines |-> <<Header, OldRow>>]}

----------------------------------------------------------------------------
(* The runs: pubmed_fetcher.py as a script, get_papers_list.main(), and    *)
(* direct calls of the library functions                                   *)

Init ==
    /\ pc = "start"
    /\ entry \in {"fetcher", "main", "script", "api"}
    /\ has_file \in IF entry = "main" THEN BOOLEAN ELSE {entry = "fetcher"}
    /\ paper_ids \in IF entry = "api" THEN IdLists ELSE {<<>>}
    /\ articles = <<>>
    /\ idx = 0
    /\ authors = <<>>
    /\ company_authors = <<>>
    /\ company_affiliations = <<>>
    /\ relevant_papers = <<>>
    /\ file0 \in FilePool
    /\ file = file0
    /\ calls = <<>>
    /\ trace = <<>>

\* fetch_paper_ids(query): one GET, raise_for_status, the idlist of the answer
FetchPaperIds ==
    /\ pc = "start"
    /\ entry \in {"fetcher", "main"}
    /\ \E status \in Statuses, idlist \in IdLists :
        /\ trace' = Append(trace, Request("esearch", status))
        /\ IF RaisesForStatus(status)
           THEN pc' = "failed" /\ paper_ids' = paper_ids
           ELSE pc' = "have_ids" /\ paper_ids' = idlist
    /\ UNCHANGED <<entry, has_file, articles, idx, authors, company_authors,
                   company_affiliations, relevant_papers, file, file0, calls>>

\* if not paper_ids: print(...) and end
NoPapersFound ==
    /\ pc = "have_ids"
    /\ paper_ids = <<>>
    /\ pc' = "done"
    /\ UNCHANGED <<entry, has_file, paper_ids, articles, idx, authors, company_authors,
                   company_affiliations, relevant_papers, file, file0, calls, trace>>

\* fetch_paper_details(paper_ids) up to the for loop
FetchPaperDetails ==
    /\ \/ pc = "have_ids" /\ paper_ids # <<>>
       \/ pc = "start" /\ entry = "api"
    /\ IF paper_ids = <<>>
       THEN /\ pc' = "have_papers"
            /\ relevant_papers' = <<>>
            /\ UNCHANGED <<articles, trace>>
       ELSE \E status \in Statuses, doc \in Documents :
            /\ trace' = Append(trace, Request("efetch", status))
            /\ IF RaisesForStatus(status)
               THEN pc' = "failed" /\ UNCHANGED <<articles, relevant_papers>>
               ELSE pc' = "loop" /\ articles' = doc /\ relevant_papers' = <<>>
    /\ UNCHANGED <<entry, has_file, paper_ids, idx, authors, company_authors,
                   company_affiliations, file, file0, calls>>

\* variant: every article is kept
HasCompanyAuthors_always(names) == TRUE

\* if company_authors:
HasCompanyAuthors(names) == names # <<>>

\* one iteration of  for article in articles
LoopBody ==
    /\ pc = "loop"
    /\ idx < Len(articles)
    /\ \E article \in {articles[idx + 1]} :
       \E extracted \in {extract_authors_and_affiliations(article)} :
       \E filtered \in {filter_company_authors(extracted.authors)} :
           /\ authors' = extracted.authors
           /\ company_authors' = filtered.names
           /\ company_affiliations' = filtered.affiliations
           /\ relevant_papers' =
                IF HasCompanyAuthors(filtered.names)
                THEN Append(relevant_papers,
                            PaperRow(article, extracted.authors, filtered.names,
                                     filtered.affiliations))
                ELSE relevant_papers
    /\ idx' = idx + 1
    /\ UNCHANGED <<pc, entry, has_file, paper_ids, articles, file, file0, calls, trace>>

\* return relevant_papers
LoopReturn ==
    /\ pc = "loop"
    /\ idx = Len(articles)
    /\ pc' = "have_papers"
    /\ UNCHANGED <<entry, has_file, paper_ids, articles, idx, authors, company_authors,
                   company_affiliations, relevant_papers, file, file0, calls, trace>>

\* get_papers_list.main: if not papers: print(...) and return
NoRelevantPapers ==
    /\ pc = "have_papers"
    /\ entry = "main"
    /\ relevant_papers = <<>>
    /\ pc' = "done"
    /\ UNCHANGED <<entry, has_file, paper_ids, articles, idx, authors, company_authors,
                   company_affiliations, relevant_papers, file, file0, calls, trace>>

\* save_to_csv(papers, args.file) as the last step of a run
SaveToCsv ==
    /\ pc = "have_papers"
    /\ \/ entry = "fetcher"
       \/ entry = "main" /\ relevant_papers # <<>> /\ has_file
    /\ file' = save_to_csv(relevant_papers, file)
    /\ calls' = Append(calls, relevant_papers)
    /\ trace' = IF relevant_papers # <<>> THEN Append(trace, FileWrite) ELSE trace
    /\ pc' = "done"
    /\ UNCHANGED <<entry, has_file, paper_ids, articles, idx, authors, company_authors,
                   company_affiliations, relevant_papers, file0>>

\* get_papers_list.main without -f: pprint(papers)
PrintPapers ==
    /\ pc = "have_papers"
    /\ entry = "main"
    /\ relevant_papers # <<>>
    /\ ~has_file
    /\ pc' = "done"
    /\ UNCHANGED <<entry, has_file, paper_ids, articles, idx, authors, company_authors,
                   company_affiliations, relevant_papers, file, file0, calls, trace>>

\* get_papers_list.py run as a script: __name__ is "__main__", the guard
\* compares it with "_main_", so main() is not called
RunAsScript ==
    /\ pc = "start"
    /\ entry = "script"
    /\ pc' = "done"
    /\ UNCHANGED <<entry, has_file, paper_ids, articles, idx, authors, company_authors,
                   company_affiliations, relevant_papers, file, file0, calls, trace>>

Next ==
    \/ FetchPaperIds
    \/ NoPapersFound
    \/ FetchPaperDetails
    \/ LoopBody
    \/ LoopReturn
    \/ NoRelevantPapers
    \/ SaveToCsv
    \/ PrintPapers
    \/ RunAsScript

Spec == Init /\ [][Next]_vars

----------------------------------------------------------------------------
(* Direct calls of fetch_paper_details, observed from the for loop on: the  *)
(* document of the response is drawn from larger sets of inputs             *)

NextLoop ==
    \/ LoopBody
    \/ LoopReturn

\* the state in which fetch_paper_details(<<"111">>) enters its for loop
InLoop(doc) ==
    /\ pc = "loop"
    /\ entry = "api"
    /\ has_file = FALSE
    /\ paper_ids = <<"111">>
    /\ articles = doc
    /\ idx = 0
    /\ authors = <<>>
    /\ company_authors = <<>>
    /\ company_affiliations = <<>>
    /\ relevant_papers = <<>>
    /\ file0 = NoFile
    /\ file = file0
    /\ calls = <<>>
    /\ trace = <<Request("efetch", 200)>>

RECURSIVE Concat(_)
Concat(parts) == IF parts = <<>> THEN <<>> ELSE Head(parts) \o Concat(Tail(parts))

\* the texts made of at most n parts
Texts(Parts, n) == {Concat(q) : q \in SeqsUpTo(Parts, n)}

OneAuthorArticle(affil) ==
    Article(Some("111"), Some("CRISPR gene editing"), Some("2024"),
            <<Author(Some(<<"B","o">>), Some(<<"K","i","m">>), affil)>>)

\* affiliation texts around the e-mail pattern
EmailParts == {<<"a","@","a">>, <<"a">>, <<"Z">>, <<"1">>, <<".">>, <<"@">>, <<" ">>, <<"a","a","a","a","a","a">>}

EmailTexts ==
    Texts(EmailParts, MaxEmailParts)
    \cup {<<"P","f","i","z","e","r"," ","I","n","c",".",","," ","c","o","n","t","a","c","t",":"," ","a",".","b","@","p","f","i","z","e","r",".","c","o","m">>, <<"E","d","i","t","a","s"," ","M","e","d","i","c","i","n","e",","," ","I","n","c","."," ","x","@","e","d","i","t","a","s",".","c","o","m">>}

InitEmail ==
    \E affil \in {None} \cup {Some(t) : t \in EmailTexts} :
        InLoop(<<OneAuthorArticle(affil)>>)

SpecEmail == InitEmail /\ [][NextLoop]_vars

\* affiliation texts around the keywords, in the case of the list, in upper
\* case and in lower case
KeywordParts ==
    {PHARMA_KEYWORDS[k] : k \in 1..Len(PHARMA_KEYWORDS)}
    \cup {upper(PHARMA_KEYWORDS[k]) : k \in 1..Len(PHARMA_KEYWORDS)}
    \cup {lower(PHARMA_KEYWORDS[k]) : k \in 1..Len(PHARMA_KEYWORDS)}
    \cup {<<"B","r","o","a","d"," ","I","n","s","t","i","t","u","t","e">>, <<" ">>, <<"D","e","p","t","."," ","o","f"," ","B","i","o","l","o","g","y",","," ">>, <<"x","@","e","d","i","t","a","s",".","c","o","m">>}

InitAffil ==
    \E affil \in {None} \cup {Some(t) : t \in Texts(KeywordParts, MaxParts)} :
        InLoop(<<OneAuthorArticle(affil)>>)

SpecAffil == InitAffil /\ [][NextLoop]_vars

\* one article with any combination of missing fields and any authors
ArticleUniverse ==
    {Article(pmid, title, date, as) :
        pmid \in {None, Some("111")},
        title \in {None, Some("CRISPR gene editing")},
        date \in {None, Some("2024")},
        as \in SeqsUpTo(AuthorPool, MaxAuthors)}

InitArticle == \E article \in ArticleUniverse : InLoop(<<article>>)

SpecArticle == InitArticle /\ [][NextLoop]_vars

----------------------------------------------------------------------------
(* Direct calls of save_to_csv on one file *)

\* the row of a retained article
RowOf(article) ==
    The({The({PaperRow(article, extracted.authors, filtered.names, filtered.affiliations) :
                filtered \in {filter_company_authors(extracted.authors)}}) :
            extracted \in {extract_authors_and_affiliations(article)}})

RowPool == {RowOf(Article111), RowOf(ArticleBare)}

RowLists == SeqsUpTo(RowPool, MaxRows)

InitExport ==
    /\ pc = "start"
    /\ entry = "api"
    /\ has_file = TRUE
    /\ paper_ids = <<>>
    /\ articles = <<>>
    /\ idx = 0
    /\ authors = <<>>
    /\ company_authors = <<>>
    /\ company_affiliations = <<>>
    /\ relevant_papers = <<>>
    /\ file0 \in FilePool \cup {[exists |-> TRUE, lines |-> <<>>]}
    /\ file = file0
    /\ calls = <<>>
    /\ trace = <<>>

\* save_to_csv(papers, filename) called by a client
CallSaveToCsv ==
    /\ pc = "start"
    /\ entry = "api"
    /\ Len(calls) < MaxCalls
    /\ \E papers \in RowLists :
        /\ file' = save_to_csv(papers, file)
        /\ calls' = Append(calls, papers)
        /\ trace' = IF papers # <<>> THEN Append(trace, FileWrite) ELSE trace
    /\ UNCHANGED <<pc, entry, has_file, paper_ids, articles, idx, authors, company_authors,
                   company_affiliations, relevant_papers, file0>>

NextExport == CallSaveToCsv

SpecExport == InitExport /\ [][NextExport]_vars

----------------------------------------------------------------------------
(* Vocabulary of the properties *)

Kinds(t) == [i \in 1..Len(t) |-> t[i].kind]

IsPrefix(a, b) == Len(a) <= Len(b) /\ SubSeq(b, 1, Len(a)) = a

\* the strictly increasing maps from 1..n into 1..m
IncreasingMaps(n, m) ==
    {f \in [1..n -> 1..m] : \A i, j \in 1..n : i < j => f[i] < f[j]}

\* a 4xx or 5xx answer
ErrorStatus(status) == status \in 400..599

\* the affiliation contains some keyword of the list, whatever the case of either
ContainsKeywordIgnoringCase(text) ==
    \E low \in {lower(text)} :
        \E k \in 1..Len(PHARMA_KEYWORDS) : Contains(low, lower(PHARMA_KEYWORDS[k]))

AffiliationText(author) ==
    IF author.Affiliation = None THEN NoAffiliation ELSE author.Affiliation[1]

HasNonAcademicAuthor(article) ==
    \E i \in 1..Len(article.Author) :
        ContainsKeywordIgnoringCase(AffiliationText(article.Author[i]))

\* the row carries the identifier, title and date of the article, or their placeholders
RowComesFrom(row, article) ==
    /\ row.PubmedID = (IF article.PMID = None THEN "Unknown ID" ELSE article.PMID[1])
    /\ row.Title = (IF article.ArticleTitle = None THEN "Unknown Title"
                    ELSE article.ArticleTitle[1])
    /\ row.PublicationDate = (IF article.PubDate = None THEN "Unknown Date"
                              ELSE article.PubDate[1])

LastRow == relevant_papers[Len(relevant_papers)]

\* e is a whole match of [\w.-]+@[\w.-]+\.[a-zA-Z]{2,6}: local part, "@" at a,
\* domain, "." at d, two to six letters
EmailShaped(e) ==
    \E a \in 2..(Len(e) - 4) :
        /\ e[a] = "@"
        /\ \A k \in 1..(a - 1) : InClass(e[k])
        /\ \E d \in (a + 2)..(Len(e) - 2) :
            /\ e[d] = "."
            /\ \A k \in (a + 1)..(d - 1) : InClass(e[k])
            /\ Len(e) - d <= 6
            /\ \A k \in (d + 1)..Len(e) : IsAlpha(e[k])

\* some match of the pattern starts at index i of text
MatchStartsAt(text, i) ==
    \E j \in i..Len(text) : EmailShaped(SubSeq(text, i, j))

PfizerAffiliation == <<"P","f","i","z","e","r"," ","I","n","c",".",","," ","c","o","n","t","a","c","t",":"," ","a",".","b","@","p","f","i","z","e","r",".","c","o","m">>
PfizerEmail == <<"a",".","b","@","p","f","i","z","e","r",".","c","o","m">>
EditasAffiliation == <<"E","d","i","t","a","s"," ","M","e","d","i","c","i","n","e",","," ","I","n","c",".">>
EditasAffiliationWithEmail == <<"E","d","i","t","a","s"," ","M","e","d","i","c","i","n","e",","," ","I","n","c","."," ","x","@","e","d","i","t","a","s",".","c","o","m">>
EditasEmail == <<"x","@","e","d","i","t","a","s",".","c","o","m">>
MitEmail == <<"y","@","m","i","t",".","e","d","u">>
BoKim == <<"B","o"," ","K","i","m">>

----------------------------------------------------------------------------
(* Properties *)

\* C1: every author whose affiliation contains a keyword of PHARMA_KEYWORDS,
\* compared without regard to case, is put in the company-author list with
\* that affiliation; an author whose affiliation contains none is not.
C1_KeywordDecidesClassification ==
    \A i \in 1..Len(authors) :
        IF ContainsKeywordIgnoringCase(authors[i].affiliation)
        THEN \E j \in 1..Len(company_authors) :
                /\ company_authors[j] = authors[i].name
                /\ company_affiliations[j] = authors[i].affiliation
        ELSE \A j \in 1..Len(company_affiliations) :
                company_affiliations[j] # authors[i].affiliation

\* C2: the rows are rows of distinct processed articles, in order, each with at
\* least one author whose affiliation contains a keyword; no error arises in
\* the loop and the loop ends only when every article has been processed.
C2_OnlyArticlesWithCompanyAuthors ==
    /\ \E f \in IncreasingMaps(Len(relevant_papers), idx) :
        \A i \in 1..Len(relevant_papers) :
            /\ HasNonAcademicAuthor(articles[f[i]])
            /\ RowComesFrom(relevant_papers[i], articles[f[i]])
    /\ (pc = "failed" => idx = 0 /\ articles = <<>>)
    /\ (pc = "loop" /\ idx < Len(articles) => ENABLED LoopBody)
    /\ (pc \in {"have_papers", "done"} => idx = Len(articles))

C2_Witness ==
    /\ pc = "done"
    /\ articles = <<Article222, Article111>>
    /\ Len(relevant_papers) = 1
    /\ relevant_papers[1].PubmedID = "111"

\* C3: the corresponding e-mail of a retained article is the e-mail of the
\* first of all its authors, in document order, whose e-mail is not "N/A",
\* and "N/A" when there is none.
C3_FirstEmailOfAllAuthors ==
    idx >= 1 /\ company_authors # <<>> =>
        /\ Len(authors) = Len(articles[idx].Author)
        /\ \A j \in 1..Len(authors) :
            authors[j].affiliation = AffiliationText(articles[idx].Author[j])
        /\ LET with == {j \in 1..Len(authors) : authors[j].email # NA} IN
           LastRow.CorrespondingAuthorEmail =
               (IF with = {} THEN NA ELSE authors[Min(with)].email)

C3_Witness ==
    /\ idx = 1
    /\ articles[1].Author = <<MitAuthor, EditasAuthor>>
    /\ company_authors = <<BoKim>>
    /\ LastRow.CorrespondingAuthorEmail = MitEmail

\* C4: after any calls of save_to_csv the file is what it was before, followed
\* by a header if it did not exist and some row was saved, followed by the
\* rows of the calls in call order; no other header is written.
C4_AppendWithoutHeader ==
    LET rows == Concat(calls) IN
        /\ rows = <<>> => file = file0
        /\ rows # <<>> /\ file0.exists =>
              file = [exists |-> TRUE, lines |-> file0.lines \o rows]
        /\ rows # <<>> /\ ~file0.exists =>
              file = [exists |-> TRUE, lines |-> <<Header>> \o rows]
        /\ Cardinality({i \in 1..Len(file.lines) : file.lines[i] = Header})
             = Cardinality({i \in 1..Len(file0.lines) : file0.lines[i] = Header})
               + (IF rows # <<>> /\ ~file0.exists THEN 1 ELSE 0)

C4_Witness ==
    /\ file0.exists
    /\ file0.lines # <<>>
    /\ Len(calls) = 2
    /\ calls[1] # <<>>
    /\ calls[2] = calls[1]
    /\ file.lines = file0.lines \o calls[1] \o calls[1]

\* C5: a request answered with an error status is the last effect of the run:
\* the run has failed, nothing follows, no row was produced, save_to_csv was
\* not called and the file is as it was.
C5_ErrorStatusIsFatal ==
    \A i \in 1..Len(trace) :
        trace[i].kind \in {"esearch", "efetch"} /\ ErrorStatus(trace[i].status) =>
            /\ i = Len(trace)
            /\ pc = "failed"
            /\ ~ENABLED Next
            /\ idx = 0
            /\ relevant_papers = <<>>
            /\ calls = <<>>
            /\ file = file0

C5_Witness ==
    /\ pc = "failed"
    /\ entry = "fetcher"
    /\ Kinds(trace) = <<"esearch", "efetch">>
    /\ file0.exists
    /\ file = file0

\* C6: in a run the effects are a prefix of search, fetch, write; the details
\* request follows a successful search with identifiers, the loop follows a
\* successful details request, the write follows the loop and has some row;
\* a run that ends with no identifier or no row leaves the file as it was;
\* fetch_paper_details with no identifier sends nothing and returns no row.
C6_StagesInOrder ==
    /\ entry # "api" => IsPrefix(Kinds(trace), <<"esearch", "efetch", "write">>)
    /\ entry # "api" /\ Len(trace) >= 2 =>
          paper_ids # <<>> /\ ~ErrorStatus(trace[1].status)
    /\ entry # "api" /\ (pc = "loop" \/ idx > 0) => Len(trace) >= 2
    /\ Len(trace) >= 3 =>
          /\ ~ErrorStatus(trace[2].status)
          /\ idx = Len(articles)
          /\ relevant_papers # <<>>
          /\ pc = "done"
    /\ pc = "done" /\ (paper_ids = <<>> \/ relevant_papers = <<>>) =>
          /\ file = file0
          /\ \A i \in 1..Len(trace) : trace[i].kind # "write" /\ ~ErrorStatus(trace[i].status)
    /\ entry = "api" /\ paper_ids = <<>> /\ pc # "start" =>
          pc = "have_papers" /\ trace = <<>> /\ relevant_papers = <<>>

C6_Witness ==
    /\ pc = "done"
    /\ entry = "main"
    /\ Kinds(trace) = <<"esearch", "efetch", "write">>
    /\ ~file0.exists
    /\ file.exists

\* the row the scenario expects for article 111
C7_ScenarioRow(affiliation, email) ==
    [PubmedID |-> "111",
     Title |-> "CRISPR gene editing",
     PublicationDate |-> "2024",
     NonAcademicAuthors |-> BoKim,
     CompanyAffiliations |-> affiliation,
     CorrespondingAuthorEmail |-> email]

\* C7 as stated: identifiers 111 and 222, article 111 by an author of "Broad
\* Institute" and an author of "Editas Medicine, Inc." with the e-mail
\* x@editas.com, article 222 academic: the only row is that of article 111,
\* with affiliation "Editas Medicine, Inc." and e-mail x@editas.com.
C7_ScenarioAsStated ==
    /\ pc \in {"have_papers", "done"}
    /\ paper_ids = <<"111", "222">>
    /\ articles \in {<<Article111, Article222>>, <<Article111NoEmail, Article222>>}
    => relevant_papers = <<C7_ScenarioRow(EditasAffiliation, EditasEmail)>>

\* C7 amended: the e-mail is part of the affiliation text, and the row
\* carries the whole affiliation text; without it the e-mail is "N/A".
C7_ScenarioAmended ==
    pc \in {"have_papers", "done"} /\ paper_ids = <<"111", "222">> =>
        /\ articles = <<Article111, Article222>> =>
              relevant_papers = <<C7_ScenarioRow(EditasAffiliationWithEmail, EditasEmail)>>
        /\ articles = <<Article111NoEmail, Article222>> =>
              relevant_papers = <<C7_ScenarioRow(EditasAffiliation, NA)>>

C7_Witness ==
    /\ pc = "done"
    /\ entry = "fetcher"
    /\ paper_ids = <<"111", "222">>
    /\ articles = <<Article111, Article222>>
    /\ Len(relevant_papers) = 1
    /\ file.lines[Len(file.lines)] = C7_ScenarioRow(EditasAffiliationWithEmail, EditasEmail)

\* C8: the e-mail stored for an author is a match of the pattern inside the
\* author's affiliation text that starts where the leftmost match starts, and
\* "N/A" exactly when the text (or "No Affiliation") has no match; the Pfizer
\* example yields a.b@pfizer.com.
C8_FirstMatchOrNA ==
    \A n \in 1..Len(authors) :
        LET text == authors[n].affiliation
            email == authors[n].email
            starts == {i \in 1..Len(text) : MatchStartsAt(text, i)}
        IN  /\ text = AffiliationText(articles[idx].Author[n])
            /\ starts = {} => email = NA
            /\ starts # {} =>
                  /\ EmailShaped(email)
                  /\ Min(starts) + Len(email) - 1 <= Len(text)
                  /\ email = SubSeq(text, Min(starts), Min(starts) + Len(email) - 1)
            /\ text = PfizerAffiliation => email = PfizerEmail
            /\ text = NoAffiliation => email = NA

C8_Witness ==
    /\ idx = 1
    /\ authors[1].affiliation = PfizerAffiliation
    /\ authors[1].email = PfizerEmail

\* C9: a missing title, date, name part or affiliation is replaced by its
\* placeholder; the article is classified all the same, no error arises in
\* the loop, and the loop ends only when every article has been processed.
C9_PlaceholdersNeverAbort ==
    /\ idx >= 1 =>
        /\ Len(authors) = Len(articles[idx].Author)
        /\ \A j \in 1..Len(authors) :
            LET author == articles[idx].Author[j] IN
                /\ author.ForeName = None \/ author.LastName = None =>
                      authors[j].name = UnknownAuthor
                /\ author.Affiliation = None =>
                      authors[j].affiliation = NoAffiliation /\ authors[j].email = NA
        /\ company_authors # <<>> =>
              /\ relevant_papers # <<>>
              /\ RowComesFrom(LastRow, articles[idx])
        /\ company_authors = <<>> => ~HasNonAcademicAuthor(articles[idx])
    /\ (pc = "failed" => idx = 0 /\ articles = <<>>)
    /\ (pc = "loop" /\ idx < Len(articles) => ENABLED LoopBody)
    /\ (pc \in {"have_papers", "done"} => idx = Len(articles))

C9_Witness ==
    /\ pc = "done"
    /\ articles = <<ArticleBare, Article111>>
    /\ Len(relevant_papers) = 2
    /\ relevant_papers[1].PubmedID = "Unknown ID"
    /\ relevant_papers[1].Title = "Unknown Title"
    /\ relevant_papers[1].PublicationDate = "Unknown Date"
    /\ relevant_papers[1].NonAcademicAuthors = UnknownAuthor
    /\ relevant_papers[2].PubmedID = "111"

====
